---- MODULE Spec2Model ----
(***************************************************************************)
(* BLE-to-USB-HID bridge: the link manager (ble_central.c), the HOGP       *)
(* client (hogp_client.c), the report bridge (hid_bridge.c) and the USB    *)
(* output sink (usb_hid.c) as one state machine.  The Bluetooth stack, the *)
(* bt_scan module, the GATT discovery manager and the USB device stack are *)
(* the environment: they deliver the callbacks the code registers.         *)
(***************************************************************************)
EXTENDS Integers, Sequences, FiniteSets, TLC

\* ---------------------------------------------------------------- constants
NKRO_REPORT_LEN == 15
NKRO_BITMAP_OFFSET == 2
NKRO_BITMAP_LEN == 13
BOOT_REPORT_LEN == 8
BOOT_MAX_KEYS == 6
APP_USB_HID_REPORT_SIZE == 8
\* uint8_t arithmetic wraps
UINT8_MOD == 256
\* errno values returned by the code (negated at the use)
ENOTCONN == 128
EAGAIN == 11
\* any other failure of a stack primitive
EIO == 5
\* main(): the LED toggles every tenth pass of the loop while not connected
BLINK_TICKS == 10

\* ------------------------------------------------------------------- bounds
\* input reports the peripheral may send in one run
MaxReports == 2
\* HID reports a peripheral's report map may hold
MaxReps == 1
\* peers that may pair and bond
MaxPeers == 2

\* ------------------------------------------------------------------ helpers
Range(s) == {s[i] : i \in 1..Len(s)}

Count(s, x) == Cardinality({i \in 1..Len(s) : s[i] = x})

\* first position of x in s, 0 when absent
IndexOf(s, x) == IF x \in Range(s) THEN CHOOSE i \in 1..Len(s) : s[i] = x /\ \A j \in 1..(i-1) : s[j] # x ELSE 0

Zeros(n) == [i \in 1..n |-> 0]

\* ++ on a uint32_t counter.  The wrap at 2^32 lies beyond MaxReports and
\* beyond the model checker's integers, so within the runs ++ is x + 1.
U32Inc(x) == x + 1

\* static const uint8_t empty_report[APP_USB_HID_REPORT_SIZE] = {0}
empty_report == Zeros(APP_USB_HID_REPORT_SIZE)

\* bits & (1 << bit)
BitSet(bits, bit) == (bits \div (2 ^ bit)) % 2 = 1

\* ---------------------------------------------------------------- translator
\* the inner loop as it would be without its "if (keycode >= 4)"
RECURSIVE NkroBits_no_reserved_check(_, _, _, _)
NkroBits_no_reserved_check(bits, byte, bit, keys) ==
    IF bit >= 8 \/ Len(keys) >= BOOT_MAX_KEYS THEN keys
    ELSE LET keycode == ((byte * 8) + bit) % UINT8_MOD
         IN IF BitSet(bits, bit)
            THEN NkroBits_no_reserved_check(bits, byte, bit + 1, Append(keys, keycode))
            ELSE NkroBits_no_reserved_check(bits, byte, bit + 1, keys)

\* the inner loop as it would be if key_idx advanced past a reserved keycode
RECURSIVE NkroBits_advances_on_reserved(_, _, _, _)
NkroBits_advances_on_reserved(bits, byte, bit, keys) ==
    IF bit >= 8 \/ Len(keys) >= BOOT_MAX_KEYS THEN keys
    ELSE LET keycode == ((byte * 8) + bit) % UINT8_MOD
         IN IF BitSet(bits, bit)
            THEN NkroBits_advances_on_reserved(bits, byte, bit + 1,
                     Append(keys, IF keycode >= 4 THEN keycode ELSE 0))
            ELSE NkroBits_advances_on_reserved(bits, byte, bit + 1, keys)

\* the inner loop of nkro_to_boot: for (bit = 0; bit < 8 && key_idx < BOOT_MAX_KEYS; bit++);
\* keys is boot[2 .. 2 + key_idx - 1]
RECURSIVE NkroBits(_, _, _, _)
NkroBits(bits, byte, bit, keys) ==
    IF bit >= 8 \/ Len(keys) >= BOOT_MAX_KEYS THEN keys
    ELSE LET keycode == ((byte * 8) + bit) % UINT8_MOD
         IN IF BitSet(bits, bit) /\ keycode >= 4
            THEN NkroBits(bits, byte, bit + 1, Append(keys, keycode))
            ELSE NkroBits(bits, byte, bit + 1, keys)

\* the outer loop as it would be if it walked the bitmap from its last byte down
RECURSIVE NkroBytes_from_top(_, _, _)
NkroBytes_from_top(nkro, byte, keys) ==
    IF byte >= NKRO_BITMAP_LEN \/ Len(keys) >= BOOT_MAX_KEYS THEN keys
    ELSE LET bits == nkro[NKRO_BITMAP_OFFSET + (NKRO_BITMAP_LEN - 1 - byte) + 1]
         IN IF bits = 0 THEN NkroBytes_from_top(nkro, byte + 1, keys)
            ELSE NkroBytes_from_top(nkro, byte + 1,
                                    NkroBits(bits, NKRO_BITMAP_LEN - 1 - byte, 0, keys))

\* the outer loop: for (byte = 0; byte < NKRO_BITMAP_LEN && key_idx < BOOT_MAX_KEYS; byte++),
\* with its "if (!bits) continue"
RECURSIVE NkroBytes(_, _, _)
NkroBytes(nkro, byte, keys) ==
    IF byte >= NKRO_BITMAP_LEN \/ Len(keys) >= BOOT_MAX_KEYS THEN keys
    ELSE LET bits == nkro[NKRO_BITMAP_OFFSET + byte + 1]
         IN IF bits = 0 THEN NkroBytes(nkro, byte + 1, keys)
            ELSE NkroBytes(nkro, byte + 1, NkroBits(bits, byte, 0, keys))

\* nkro_to_boot as it would be if it copied the reserved byte too
nkro_to_boot_keeps_reserved(nkro) ==
    LET keys == NkroBytes(nkro, 0, <<>>)
    IN <<nkro[1], nkro[2]>> \o keys \o Zeros(BOOT_MAX_KEYS - Len(keys))

\* nkro_to_boot: memset 0, boot[0] = nkro[0], boot[1] = 0, then the key slots
nkro_to_boot(nkro) ==
    LET keys == NkroBytes(nkro, 0, <<>>)
    IN <<nkro[1], 0>> \o keys \o Zeros(BOOT_MAX_KEYS - Len(keys))

\* the report selection as it would be if the boot copy were one byte short
usb_report_of_short_copy(report, len) ==
    IF len = NKRO_REPORT_LEN THEN nkro_to_boot(report)
    ELSE IF len = BOOT_REPORT_LEN THEN SubSeq(report, 1, BOOT_REPORT_LEN - 1) \o <<0>>
    ELSE LET n == IF len < BOOT_REPORT_LEN THEN len ELSE BOOT_REPORT_LEN
         IN SubSeq(report, 1, n) \o Zeros(BOOT_REPORT_LEN - n)

\* the report selection as it would be if a report of unexpected length were blanked
usb_report_of_blanks_odd(report, len) ==
    IF len = NKRO_REPORT_LEN THEN nkro_to_boot(report)
    ELSE IF len = BOOT_REPORT_LEN THEN SubSeq(report, 1, BOOT_REPORT_LEN)
    ELSE Zeros(BOOT_REPORT_LEN)

\* the report selection as it would be if a boot report's reserved byte were cleared
usb_report_of_clear_reserved(report, len) ==
    IF len = NKRO_REPORT_LEN THEN nkro_to_boot(report)
    ELSE IF len = BOOT_REPORT_LEN THEN <<report[1], 0>> \o SubSeq(report, 3, BOOT_REPORT_LEN)
    ELSE LET n == IF len < BOOT_REPORT_LEN THEN len ELSE BOOT_REPORT_LEN
         IN SubSeq(report, 1, n) \o Zeros(BOOT_REPORT_LEN - n)

\* the first part of hid_bridge_handle_report: usb_report[] = {0}, then the
\* branch on len (len is the uint8_t the notification handler passes)
usb_report_of(report, len) ==
    IF len = NKRO_REPORT_LEN THEN nkro_to_boot(report)
    ELSE IF len = BOOT_REPORT_LEN THEN SubSeq(report, 1, BOOT_REPORT_LEN)
    ELSE LET n == IF len < BOOT_REPORT_LEN THEN len ELSE BOOT_REPORT_LEN
         IN SubSeq(report, 1, n) \o Zeros(BOOT_REPORT_LEN - n)

\* reports a peripheral sends in the state-machine runs: boot report
\* (left shift + 'a'), a 15-byte bitmap report (keycodes 4 and 9), a short one
BootReportA == <<2, 0, 4, 0, 0, 0, 0, 0>>
NkroReportA == <<1, 7, 16, 2, 0, 0, 0, 0, 0, 0, 0, 0, 0, 0, 0>>
ShortReportA == <<5, 0, 9>>
\* an 8-byte report whose every byte is set, the reserved byte too
BootReportB == <<255, 1, 4, 5, 6, 7, 8, 9>>
PeripheralReports == {BootReportA, NkroReportA, ShortReportA}

\* -------------------------------------------------------------------- state
VARIABLES
    current_conn,        \* ble_central.c: struct bt_conn *current_conn; 0 is NULL
    scanning,            \* ble_central.c: bool scanning
    scanActive,          \* bt_scan module: a scan is running
    link,                \* stack: "none", "initiating", "up", "lost" (torn down, callback pending)
    discReq,             \* stack: bt_conn_disconnect was requested on the live connection
    dm,                  \* gatt_dm: "idle" or "running"
    hogpPending,         \* bt_hogp: handles assigned, ready_cb not yet delivered
    hogp_ready,          \* hogp_client.c: bool hogp_ready
    subscribed_reports,  \* hogp_client.c: uint8_t subscribed_reports
    subsActive,          \* stack: report subscriptions that deliver notifications
    usb_configured,      \* usb_hid.c: bool usb_configured
    hid_sem,             \* usb_hid.c: K_SEM_DEFINE(hid_sem, 1, 1)
    epPending,           \* USB stack: endpoint writes accepted and not yet completed
    hostLast,            \* USB stack: the last report the interrupt endpoint accepted
    reports_received,    \* hid_bridge.c counters
    reports_forwarded,
    reports_dropped,
    last_report,         \* hid_bridge.c: uint8_t last_report[8]
    bleReport,           \* hid_bridge_handle_report: its report argument, len bytes of it (<<>>: not called)
    usbReport,           \* hid_bridge_handle_report: its local usb_report[8] once filled (<<>>: not called)
    bonds,               \* stack: the peers a bond is stored for
    mainPc,              \* main thread: <<the function it is in, the statement it is about to run>>
    awaiting_clear_confirm, \* main.c: bool awaiting_clear_confirm
    was_connected,       \* main.c: main()'s local was_connected
    blink_counter,       \* main.c: main()'s local blink_counter
    led,                 \* the level of the led0 pin (status_led in main.c, led in hid_bridge.c)
    ledOffPending,       \* hid_bridge.c: led_off_work is scheduled
    lastOp,              \* the handler or API function that ran last ("link_down": none, the link fell)
    ops,                 \* what it did, in program order: primitives called, fields written
    ret                  \* its return value; 0 after a void handler

vars == <<current_conn, scanning, scanActive, link, discReq, dm, hogpPending,
          hogp_ready, subscribed_reports, subsActive, usb_configured, hid_sem, epPending,
          hostLast, reports_received, reports_forwarded, reports_dropped, last_report,
          bleReport, usbReport, bonds, mainPc, awaiting_clear_confirm, was_connected,
          blink_counter, led, ledOffPending, lastOp, ops, ret>>

\* the state as one record, so that a C function is an operator from state to state
St == [current_conn |-> current_conn, scanning |-> scanning, scanActive |-> scanActive,
       link |-> link, discReq |-> discReq, dm |-> dm,
       hogpPending |-> hogpPending, hogp_ready |-> hogp_ready,
       subscribed_reports |-> subscribed_reports, subsActive |-> subsActive,
       usb_configured |-> usb_configured, hid_sem |-> hid_sem, epPending |-> epPending,
       hostLast |-> hostLast, reports_received |-> reports_received,
       reports_forwarded |-> reports_forwarded, reports_dropped |-> reports_dropped,
       last_report |-> last_report, bleReport |-> bleReport, usbReport |-> usbReport,
       bonds |-> bonds, mainPc |-> mainPc, awaiting_clear_confirm |-> awaiting_clear_confirm,
       was_connected |-> was_connected, blink_counter |-> blink_counter, led |-> led,
       ledOffPending |-> ledOffPending,
       lastOp |-> lastOp, ops |-> ops, ret |-> ret]

Commit(t) ==
    /\ current_conn' = t.current_conn
    /\ scanning' = t.scanning
    /\ scanActive' = t.scanActive
    /\ link' = t.link
    /\ discReq' = t.discReq
    /\ dm' = t.dm
    /\ hogpPending' = t.hogpPending
    /\ hogp_ready' = t.hogp_ready
    /\ subscribed_reports' = t.subscribed_reports
    /\ subsActive' = t.subsActive
    /\ usb_configured' = t.usb_configured
    /\ hid_sem' = t.hid_sem
    /\ epPending' = t.epPending
    /\ hostLast' = t.hostLast
    /\ reports_received' = t.reports_received
    /\ reports_forwarded' = t.reports_forwarded
    /\ reports_dropped' = t.reports_dropped
    /\ last_report' = t.last_report
    /\ bleReport' = t.bleReport
    /\ usbReport' = t.usbReport
    /\ bonds' = t.bonds
    /\ mainPc' = t.mainPc
    /\ awaiting_clear_confirm' = t.awaiting_clear_confirm
    /\ was_connected' = t.was_connected
    /\ blink_counter' = t.blink_counter
    /\ led' = t.led
    /\ ledOffPending' = t.ledOffPending
    /\ lastOp' = t.lastOp
    /\ ops' = t.ops
    /\ ret' = t.ret

\* a handler or API function starts: its log is empty, no locals are live
Enter(s, name) == [s EXCEPT !.lastOp = name, !.ops = <<>>, !.ret = 0,
                            !.bleReport = <<>>, !.usbReport = <<>>]

Log(s, op) == [s EXCEPT !.ops = Append(@, op)]

\* a void handler returns: no value is left
Void(s) == [s EXCEPT !.ret = 0]

\* the statics after main() has run app_usb_hid_init, hid_bridge_init and
\* ble_central_init, before it calls ble_central_start_scan
Init ==
    /\ current_conn = 0
    /\ scanning = FALSE
    /\ scanActive = FALSE
    /\ link = "none"
    /\ discReq = FALSE
    /\ dm = "idle"
    /\ hogpPending = FALSE
    /\ hogp_ready = FALSE
    /\ subscribed_reports = 0
    /\ subsActive = 0
    /\ usb_configured = FALSE
    /\ hid_sem = 1
    /\ epPending = 0
    /\ hostLast = empty_report
    /\ reports_received = 0
    /\ reports_forwarded = 0
    /\ reports_dropped = 0
    /\ last_report = Zeros(8)
    /\ bleReport = <<>>
    /\ usbReport = <<>>
    /\ bonds = {}
    /\ mainPc = <<"main", "ble_central_start_scan">>
    /\ awaiting_clear_confirm = FALSE
    /\ was_connected = FALSE
    /\ blink_counter = 0
    /\ led = 0
    /\ ledOffPending = FALSE
    /\ lastOp = "init"
    /\ ops = <<>>
    /\ ret = 0

\* --------------------------------------------------------------- output sink
\* app_usb_hid_ready
app_usb_hid_ready(s) == s.usb_configured

\* app_usb_hid_send_report without its "if (!usb_configured)" early return
app_usb_hid_send_report_no_config_check(s, report, werr) ==
    IF s.hid_sem = 0
    THEN [Log(Log(s, "k_sem_take"), "LOG_WRN HID report timeout") EXCEPT !.ret = -EAGAIN]
    ELSE IF werr # 0
         THEN [Log(Log(Log(Log(s, "k_sem_take"), "hid_int_ep_write"),
                       "LOG_ERR Failed to send HID report"), "k_sem_give")
                  EXCEPT !.hid_sem = 1, !.ret = werr]
         ELSE [Log(Log(s, "k_sem_take"), "hid_int_ep_write")
                  EXCEPT !.hid_sem = 0, !.epPending = s.epPending + 1,
                         !.hostLast = report, !.ret = 0]

\* app_usb_hid_send_report as it would be if a timed-out wait were followed by
\* the endpoint write all the same
app_usb_hid_send_report_busy_writes(s, report, werr) ==
    IF ~s.usb_configured THEN [s EXCEPT !.ret = -ENOTCONN]
    ELSE IF werr # 0
         THEN [Log(Log(Log(Log(s, "k_sem_take"), "hid_int_ep_write"),
                       "LOG_ERR Failed to send HID report"), "k_sem_give")
                  EXCEPT !.hid_sem = 1, !.ret = werr]
         ELSE [Log(Log(s, "k_sem_take"), "hid_int_ep_write")
                  EXCEPT !.hid_sem = 0, !.epPending = s.epPending + 1,
                         !.hostLast = report, !.ret = 0]

\* app_usb_hid_send_report as it would be if a successful send gave the slot back itself
app_usb_hid_send_report_gives_slot(s, report, werr) ==
    IF ~s.usb_configured THEN [s EXCEPT !.ret = -ENOTCONN]
    ELSE IF s.hid_sem = 0
         THEN [Log(Log(s, "k_sem_take"), "LOG_WRN HID report timeout") EXCEPT !.ret = -EAGAIN]
    ELSE IF werr # 0
         THEN [Log(Log(Log(Log(s, "k_sem_take"), "hid_int_ep_write"),
                       "LOG_ERR Failed to send HID report"), "k_sem_give")
                  EXCEPT !.hid_sem = 1, !.ret = werr]
         ELSE [Log(Log(Log(s, "k_sem_take"), "hid_int_ep_write"), "k_sem_give")
                  EXCEPT !.hid_sem = 1, !.epPending = s.epPending + 1,
                         !.hostLast = report, !.ret = 0]

\* app_usb_hid_send_report; werr is what hid_int_ep_write returns.  A held
\* semaphore means no completion arrived: k_sem_take(K_MSEC(100)) times out
\* with -EAGAIN (a completion inside the window is int_in_ready_cb running
\* before this call).
app_usb_hid_send_report(s, report, werr) ==
    IF ~s.usb_configured THEN [s EXCEPT !.ret = -ENOTCONN]
    ELSE IF s.hid_sem = 0
         THEN [Log(Log(s, "k_sem_take"), "LOG_WRN HID report timeout") EXCEPT !.ret = -EAGAIN]
    ELSE IF werr # 0
         THEN [Log(Log(Log(Log(s, "k_sem_take"), "hid_int_ep_write"),
                       "LOG_ERR Failed to send HID report"), "k_sem_give")
                  EXCEPT !.hid_sem = 1, !.ret = werr]
         ELSE [Log(Log(s, "k_sem_take"), "hid_int_ep_write")
                  EXCEPT !.hid_sem = 0, !.epPending = s.epPending + 1,
                         !.hostLast = report, !.ret = 0]

\* app_usb_hid_release_all
app_usb_hid_release_all(s, werr) ==
    app_usb_hid_send_report(Log(s, "app_usb_hid_release_all"), empty_report, werr)

\* int_in_ready_cb: k_sem_give on a semaphore whose limit is 1
int_in_ready_cb(s) == [Log(s, "k_sem_give") EXCEPT !.hid_sem = 1]

\* status_cb
status_cb(s, status) ==
    IF status = "USB_DC_CONFIGURED" THEN [s EXCEPT !.usb_configured = TRUE]
    ELSE IF status = "USB_DC_DISCONNECTED" THEN [s EXCEPT !.usb_configured = FALSE]
    ELSE s

\* -------------------------------------------------------------------- bridge
\* led_off_handler: the pin goes low
led_off_handler(s) == [Log(s, "gpio_pin_set 0") EXCEPT !.led = 0]

\* led_blink: the pin goes high and led_off_work is (re)scheduled 10 ms ahead
led_blink(s) == [Log(s, "led_blink") EXCEPT !.led = 1, !.ledOffPending = TRUE]

\* hid_bridge_handle_report as it would be if a failed send were not counted
hid_bridge_handle_report_uncounted_busy(s, report, len, werr) ==
    LET usb_report == usb_report_of(report, len)
        s1 == [Log(s, "hid_bridge_handle_report")
                  EXCEPT !.reports_received = U32Inc(@),
                         !.bleReport = report, !.usbReport = usb_report]
    IN IF ~app_usb_hid_ready(s1)
       THEN [s1 EXCEPT !.reports_dropped = U32Inc(@)]
       ELSE LET s2 == app_usb_hid_send_report(s1, usb_report, werr)
            IN IF s2.ret # 0
               THEN s2
               ELSE [led_blink(s2)
                        EXCEPT !.reports_forwarded = U32Inc(@),
                               !.last_report = usb_report]

\* hid_bridge_handle_report as it would be if a report met by a host that is
\* not ready were not counted
hid_bridge_handle_report_silent_drop(s, report, len, werr) ==
    LET usb_report == usb_report_of(report, len)
        s1 == [Log(s, "hid_bridge_handle_report")
                  EXCEPT !.reports_received = U32Inc(@),
                         !.bleReport = report, !.usbReport = usb_report]
    IN IF ~app_usb_hid_ready(s1)
       THEN s1
       ELSE LET s2 == app_usb_hid_send_report(s1, usb_report, werr)
            IN IF s2.ret # 0
               THEN [s2 EXCEPT !.reports_dropped = U32Inc(@)]
               ELSE [led_blink(s2)
                        EXCEPT !.reports_forwarded = U32Inc(@),
                               !.last_report = usb_report]

\* hid_bridge_handle_report as it would be if it held a report back and sent
\* the one stored before it
hid_bridge_handle_report_sends_previous(s, report, len, werr) ==
    LET usb_report == usb_report_of(report, len)
        s1 == [Log(s, "hid_bridge_handle_report")
                  EXCEPT !.reports_received = U32Inc(@),
                         !.bleReport = report, !.usbReport = usb_report]
    IN IF ~app_usb_hid_ready(s1)
       THEN [s1 EXCEPT !.reports_dropped = U32Inc(@)]
       ELSE LET s2 == app_usb_hid_send_report(s1, s1.last_report, werr)
            IN IF s2.ret # 0
               THEN [s2 EXCEPT !.reports_dropped = U32Inc(@)]
               ELSE [led_blink(s2)
                        EXCEPT !.reports_forwarded = U32Inc(@),
                               !.last_report = usb_report]

\* hid_bridge_handle_report as it would be if it used last_report to blank a
\* report equal to the one forwarded before it
hid_bridge_handle_report_dedup(s, report, len, werr) ==
    LET fresh == usb_report_of(report, len)
        usb_report == IF fresh = s.last_report THEN Zeros(BOOT_REPORT_LEN) ELSE fresh
        s1 == [Log(s, "hid_bridge_handle_report")
                  EXCEPT !.reports_received = U32Inc(@),
                         !.bleReport = report, !.usbReport = usb_report]
    IN IF ~app_usb_hid_ready(s1)
       THEN [s1 EXCEPT !.reports_dropped = U32Inc(@)]
       ELSE LET s2 == app_usb_hid_send_report(s1, usb_report, werr)
            IN IF s2.ret # 0
               THEN [s2 EXCEPT !.reports_dropped = U32Inc(@)]
               ELSE [led_blink(s2)
                        EXCEPT !.reports_forwarded = U32Inc(@),
                               !.last_report = usb_report]

\* hid_bridge_handle_report
hid_bridge_handle_report(s, report, len, werr) ==
    LET usb_report == usb_report_of(report, len)
        s1 == [Log(s, "hid_bridge_handle_report")
                  EXCEPT !.reports_received = U32Inc(@),
                         !.bleReport = report, !.usbReport = usb_report]
    IN IF ~app_usb_hid_ready(s1)
       THEN [s1 EXCEPT !.reports_dropped = U32Inc(@)]
       ELSE LET s2 == app_usb_hid_send_report(s1, usb_report, werr)
            IN IF s2.ret # 0
               THEN [s2 EXCEPT !.reports_dropped = U32Inc(@)]
               ELSE [led_blink(s2)
                        EXCEPT !.reports_forwarded = U32Inc(@),
                               !.last_report = usb_report]

\* hid_bridge_on_disconnect as it would be if a failed release were counted as
\* a dropped report
hid_bridge_on_disconnect_counting(s, werr) ==
    LET s1 == app_usb_hid_release_all(Log(s, "hid_bridge_on_disconnect"), werr)
    IN [s1 EXCEPT !.last_report = Zeros(8),
                  !.reports_dropped = IF s1.ret # 0 THEN U32Inc(@) ELSE @]

\* hid_bridge_on_disconnect as it would be if it started the statistics afresh
hid_bridge_on_disconnect_resets(s, werr) ==
    [app_usb_hid_release_all(Log(s, "hid_bridge_on_disconnect"), werr)
        EXCEPT !.last_report = Zeros(8), !.reports_received = 0,
               !.reports_forwarded = 0, !.reports_dropped = 0]

\* hid_bridge_on_disconnect
hid_bridge_on_disconnect(s, werr) ==
    [app_usb_hid_release_all(Log(s, "hid_bridge_on_disconnect"), werr)
        EXCEPT !.last_report = Zeros(8)]

\* ------------------------------------------------------------ stack primitives
\* bt_conn_disconnect on the live connection: a request; the link goes down
\* later and the disconnected (or failed-connected) callback reports it
bt_conn_disconnect(s) ==
    IF s.link \in {"up", "initiating"}
    THEN [Log(s, "bt_conn_disconnect") EXCEPT !.discReq = TRUE, !.ret = 0]
    ELSE [Log(s, "bt_conn_disconnect") EXCEPT !.ret = -ENOTCONN]

\* bt_gatt_dm_start: one discovery at a time; err is the stack's own failure
bt_gatt_dm_start(s, err) ==
    IF s.dm = "running" \/ err # 0
    THEN [Log(s, "bt_gatt_dm_start") EXCEPT !.ret = IF err # 0 THEN err ELSE -EIO]
    ELSE [Log(s, "bt_gatt_dm_start") EXCEPT !.dm = "running", !.ret = 0]

\* ------------------------------------------------------------------ link manager
\* ble_central_start_scan without its "if (current_conn)" early return
ble_central_start_scan_no_conn_check(s, err) ==
    IF s.scanning THEN [s EXCEPT !.ret = 0]
    ELSE IF err # 0
         THEN [Log(Log(s, "bt_scan_start"), "LOG_ERR Scanning failed to start") EXCEPT !.ret = err]
    ELSE [Log(s, "bt_scan_start") EXCEPT !.scanActive = TRUE, !.scanning = TRUE, !.ret = 0]

\* ble_central_start_scan without its "if (scanning)" early return
ble_central_start_scan_no_flag_check(s, err) ==
    IF s.current_conn # 0 THEN [s EXCEPT !.ret = 0]
    ELSE IF err # 0
         THEN [Log(Log(s, "bt_scan_start"), "LOG_ERR Scanning failed to start") EXCEPT !.ret = err]
    ELSE [Log(s, "bt_scan_start") EXCEPT !.scanActive = TRUE, !.scanning = TRUE, !.ret = 0]

\* ble_central_start_scan; err is what bt_scan_start returns
ble_central_start_scan(s, err) ==
    IF s.scanning THEN [s EXCEPT !.ret = 0]
    ELSE IF s.current_conn # 0 THEN [s EXCEPT !.ret = 0]
    ELSE IF err # 0
         THEN [Log(Log(s, "bt_scan_start"), "LOG_ERR Scanning failed to start") EXCEPT !.ret = err]
    ELSE [Log(s, "bt_scan_start") EXCEPT !.scanActive = TRUE, !.scanning = TRUE, !.ret = 0]

\* ble_central_stop_scan
ble_central_stop_scan(s) ==
    IF ~s.scanning THEN s
    ELSE [Log(s, "bt_scan_stop") EXCEPT !.scanActive = FALSE, !.scanning = FALSE]

\* ble_central_is_connected
ble_central_is_connected(s) == s.current_conn # 0

\* ble_central_disconnect as it would be if it dropped the handle itself
ble_central_disconnect_sync(s) ==
    IF s.current_conn = 0 THEN [s EXCEPT !.ret = -ENOTCONN]
    ELSE [bt_conn_disconnect(s) EXCEPT !.current_conn = 0]

\* ble_central_disconnect
ble_central_disconnect(s) ==
    IF s.current_conn = 0 THEN [s EXCEPT !.ret = -ENOTCONN]
    ELSE bt_conn_disconnect(s)

\* scan_filter_match: logs the candidate, changes nothing
scan_filter_match(s, connectable) == Log(s, "scan_filter_match")

\* scan_connecting_error: logs
scan_connecting_error(s) == Log(s, "scan_connecting_error")

\* scan_connecting: current_conn = bt_conn_ref(conn)
scan_connecting(s, conn) ==
    [Log(s, "scan_connecting") EXCEPT !.current_conn = conn]

\* if (current_conn) { bt_conn_unref(current_conn); current_conn = NULL; }
release_conn(s) ==
    IF s.current_conn # 0
    THEN [Log(s, "current_conn = NULL") EXCEPT !.current_conn = 0]
    ELSE s

\* connected; err is the callback's argument, secErr what bt_conn_set_security
\* returns (logged only), scanErr what bt_scan_start returns
connected(s, err, secErr, scanErr) ==
    IF err # 0
    THEN Void(ble_central_start_scan(release_conn(Log(s, "LOG_ERR Failed to connect")), scanErr))
    ELSE Void(Log(Log(s, "bt_conn_le_param_update"), "bt_conn_set_security"))

\* disconnected with the key release moved behind the handle reset and the rescan
disconnected_release_last(s, werr, scanErr) ==
    Void(hid_bridge_on_disconnect(ble_central_start_scan(release_conn(s), scanErr), werr))

\* disconnected
disconnected(s, werr, scanErr) ==
    Void(ble_central_start_scan(release_conn(hid_bridge_on_disconnect(s, werr)), scanErr))

\* hogp_client_discover
hogp_client_discover(s, dmErr) ==
    LET s1 == bt_gatt_dm_start([Log(s, "hogp_client_discover") EXCEPT !.hogp_ready = FALSE], dmErr)
    IN IF s1.ret # 0 THEN Log(s1, "LOG_ERR Failed to start GATT discovery") ELSE s1

\* security_changed as it would be if a failed security still started discovery
security_changed_discover_on_error(s, err, dmErr) ==
    IF err # 0
    THEN Void(hogp_client_discover(bt_conn_disconnect(Log(s, "LOG_ERR Security failed")), dmErr))
    ELSE Void(hogp_client_discover(s, dmErr))

\* security_changed
security_changed(s, err, dmErr) ==
    IF err # 0 THEN Void(bt_conn_disconnect(Log(s, "LOG_ERR Security failed")))
    ELSE Void(hogp_client_discover(s, dmErr))

\* ------------------------------------------------------------------ HOGP client
\* discovery_completed: bt_hogp_handles_assign (assignErr), then the release
discovery_completed(s, assignErr) ==
    LET s1 == Log(s, "bt_hogp_handles_assign")
        s2 == IF assignErr # 0 THEN Log(s1, "LOG_ERR Failed to assign HOGP handles")
              ELSE [s1 EXCEPT !.hogpPending = TRUE]
    IN Void([Log(s2, "bt_gatt_dm_data_release") EXCEPT !.dm = "idle"])

\* discovery_service_not_found: logs, nothing else
discovery_service_not_found(s) == Log(s, "LOG_ERR HID service not found")

\* discovery_error_found: logs, nothing else
discovery_error_found(s) == Log(s, "LOG_ERR GATT discovery error")

\* the loop of hogp_ready_cb over the discovered reports; a report is
\* [type, subErr], subErr being what bt_hogp_rep_subscribe would return
RECURSIVE SubscribeLoop(_, _, _)
SubscribeLoop(s, reps, i) ==
    IF i > Len(reps) THEN s
    ELSE IF reps[i].type = "input"
         THEN LET s1 == Log(s, "bt_hogp_rep_subscribe")
              IN IF reps[i].subErr # 0
                 THEN SubscribeLoop(Log(s1, "LOG_ERR Failed to subscribe to report"), reps, i + 1)
                 ELSE SubscribeLoop([s1 EXCEPT !.subscribed_reports = (@ + 1) % UINT8_MOD,
                                               !.subsActive = @ + 1], reps, i + 1)
         ELSE SubscribeLoop(s, reps, i + 1)

\* hogp_ready_cb
hogp_ready_cb(s, reps) ==
    LET s1 == SubscribeLoop([s EXCEPT !.subscribed_reports = 0], reps, 1)
    IN IF s1.subscribed_reports > 0 THEN [s1 EXCEPT !.hogp_ready = TRUE]
       ELSE Log(s1, "LOG_ERR No input reports found to subscribe")

\* hogp_client_ready
hogp_client_ready(s) == s.hogp_ready

\* hogp_report_notify: data is <<>> for the NULL of an unsubscription; the
\* result's ret is 1 for BT_GATT_ITER_CONTINUE, 0 for BT_GATT_ITER_STOP
hogp_report_notify(s, err, data, werr) ==
    IF err # 0 THEN [s EXCEPT !.ret = 0]
    ELSE IF data = <<>> THEN [s EXCEPT !.ret = 0]
    ELSE [hid_bridge_handle_report(s, data, Len(data) % UINT8_MOD, werr) EXCEPT !.ret = 1]

\* ------------------------------------------------------------------- actions
\* what a stack primitive may return: success or a failure
StackResults == {0, -EIO}

\* the report maps a peripheral may expose: each report's type and the
\* outcome of subscribing to it
RepInfos == [type : {"input", "feature"}, subErr : StackResults]
RECURSIVE SeqsUpTo(_, _)
SeqsUpTo(S, n) ==
    IF n = 0 THEN {<<>>}
    ELSE LET shorter == SeqsUpTo(S, n - 1)
         IN shorter \cup {Append(q, x) : q \in {r \in shorter : Len(r) = n - 1}, x \in S}
RepLists == SeqsUpTo(RepInfos, MaxReps)

Subscribable(reps) == Cardinality({i \in 1..Len(reps) : reps[i].type = "input" /\ reps[i].subErr = 0})

\* main() at boot, or the console's bond-clearing command, calls ble_central_start_scan
StartScanCall ==
    \E err \in StackResults :
        Commit(ble_central_start_scan(Enter(St, "ble_central_start_scan"), err))

\* a caller of the public ble_central_stop_scan
StopScanCall ==
    Commit(ble_central_stop_scan(Enter(St, "ble_central_stop_scan")))

\* a caller of the public ble_central_disconnect
DisconnectCall ==
    Commit(ble_central_disconnect(Enter(St, "ble_central_disconnect")))

\* bt_conn_le_create takes a connection object from the stack's pool: one
\* that is not the live connection's
FreshConn(s) == IF s.link = "none" THEN 1 ELSE IF s.current_conn = 1 THEN 2 ELSE 1

\* bt_scan module, connect_if_match = 1: a filter match reports the candidate;
\* for a connectable one the module stops its scan and creates the connection,
\* then calls scan_connecting, or scan_connecting_error when the creation failed
ScanMatch ==
    /\ scanActive
    /\ \E connectable \in BOOLEAN, createErr \in StackResults :
        LET s1 == scan_filter_match(Enter(St, "scan_filter_match"), connectable)
            s2 == [s1 EXCEPT !.scanActive = FALSE]
        IN IF ~connectable THEN Commit(s1)
           ELSE IF createErr # 0 THEN Commit(scan_connecting_error(s2))
           ELSE Commit(scan_connecting([s2 EXCEPT !.link = "initiating",
                                                  !.discReq = FALSE],
                                       FreshConn(s2)))

\* the stack reports the outcome of the connection attempt
Connected ==
    /\ link = "initiating"
    /\ \E err \in {0, 2}, secErr \in StackResults, scanErr \in StackResults :
        LET s0 == Enter(St, "connected")
        IN IF err # 0
           THEN Commit(connected([s0 EXCEPT !.link = "none", !.discReq = FALSE],
                                 err, secErr, scanErr))
           ELSE Commit(connected([s0 EXCEPT !.link = "up"], err, secErr, scanErr))

\* the link goes down: the peer left, the supervision timeout expired, or a
\* requested disconnect completed
LinkDown ==
    /\ link = "up"
    /\ Commit([Enter(St, "link_down") EXCEPT !.link = "lost"])

\* the stack reports the loss, after GATT has dropped the link's subscriptions
\* and failed its pending discovery
Disconnected ==
    /\ link = "lost"
    /\ dm = "idle"
    /\ subsActive = 0
    /\ \E werr \in StackResults, scanErr \in StackResults :
        Commit(disconnected([Enter(St, "disconnected")
                                EXCEPT !.link = "none", !.discReq = FALSE,
                                       !.hogpPending = FALSE],
                            werr, scanErr))

\* the security level of the live link changed (pairing done, bond applied,
\* key refreshed) or failed to
SecurityChanged ==
    /\ link = "up"
    /\ \E err \in {0, 1}, dmErr \in StackResults :
        Commit(security_changed(Enter(St, "security_changed"), err, dmErr))

\* gatt_dm: the discovery found the HID service
DiscoveryCompleted ==
    /\ dm = "running"
    /\ link = "up"
    /\ \E assignErr \in StackResults :
        Commit(discovery_completed(Enter(St, "discovery_completed"), assignErr))

\* gatt_dm: the peer has no HID service
DiscoveryServiceNotFound ==
    /\ dm = "running"
    /\ link = "up"
    /\ Commit([discovery_service_not_found(Enter(St, "discovery_service_not_found"))
                  EXCEPT !.dm = "idle"])

\* gatt_dm: the discovery failed, also because the link went down under it
DiscoveryErrorFound ==
    /\ dm = "running"
    /\ link \in {"up", "lost"}
    /\ Commit([discovery_error_found(Enter(St, "discovery_error_found"))
                  EXCEPT !.dm = "idle"])

\* bt_hogp: the assigned service is prepared
HogpReady ==
    /\ hogpPending
    /\ link = "up"
    /\ \E reps \in RepLists :
        /\ subsActive + Subscribable(reps) <= MaxReps
        /\ Commit([hogp_ready_cb(Enter(St, "hogp_ready_cb"), reps)
                      EXCEPT !.hogpPending = FALSE])

\* a subscribed input report's notification arrives
ReportNotify ==
    /\ subsActive > 0
    /\ link = "up"
    /\ reports_received < MaxReports
    /\ \E data \in PeripheralReports, werr \in StackResults :
        Commit(hogp_report_notify(Enter(St, "hogp_report_notify"), 0, data, werr))

\* a notification with an error: the handler's BT_GATT_ITER_STOP ends the subscription
ReportNotifyError ==
    /\ subsActive > 0
    /\ link = "up"
    /\ LET s1 == hogp_report_notify(Enter(St, "hogp_report_notify"), 1, <<>>, 0)
       IN Commit(IF s1.ret = 0 THEN [s1 EXCEPT !.subsActive = @ - 1] ELSE s1)

\* GATT drops a subscription of the lost link: the handler is called with no data
ReportUnsubscribed ==
    /\ subsActive > 0
    /\ link = "lost"
    /\ Commit([hogp_report_notify(Enter(St, "hogp_report_notify"), 0, <<>>, 0)
                  EXCEPT !.subsActive = @ - 1])

\* USB: the host took the report of the interrupt endpoint
IntInReady ==
    /\ epPending > 0
    /\ Commit([int_in_ready_cb(Enter(St, "int_in_ready_cb")) EXCEPT !.epPending = @ - 1])

\* USB: a device status change; a detach may cancel the pending transfer
\* without a completion
UsbStatus ==
    \E status \in {"USB_DC_CONFIGURED", "USB_DC_DISCONNECTED", "USB_DC_SUSPEND", "USB_DC_RESUME"},
       cancel \in BOOLEAN :
        LET s1 == status_cb(Enter(St, "status_cb"), status)
        IN Commit(IF status = "USB_DC_DISCONNECTED" /\ cancel
                  THEN [s1 EXCEPT !.epPending = 0] ELSE s1)

Next ==
    \/ StartScanCall
    \/ StopScanCall
    \/ DisconnectCall
    \/ ScanMatch
    \/ Connected
    \/ LinkDown
    \/ Disconnected
    \/ SecurityChanged
    \/ DiscoveryCompleted
    \/ DiscoveryServiceNotFound
    \/ DiscoveryErrorFound
    \/ HogpReady
    \/ ReportNotify
    \/ ReportNotifyError
    \/ ReportUnsubscribed
    \/ IntInReady
    \/ UsbStatus

Spec == Init /\ [][Next]_vars

\* -------------------------------------------------------- pairing authenticator
\* auth_passkey_entry as it would be if it also dropped the link
auth_passkey_entry_disconnects(s) ==
    bt_conn_disconnect(Log(Log(s, "LOG_WRN Passkey entry requested - not supported"),
                           "bt_conn_auth_cancel"))

\* auth_passkey_entry: warns and cancels the authentication on its conn
auth_passkey_entry(s) ==
    Log(Log(s, "LOG_WRN Passkey entry requested - not supported"), "bt_conn_auth_cancel")

\* auth_passkey_confirm as it would be if it refused the code 000000
auth_passkey_confirm_gated(s, passkey) ==
    IF passkey = 0 THEN Log(s, "bt_conn_auth_cancel")
    ELSE Log(s, "bt_conn_auth_passkey_confirm")

\* auth_passkey_confirm: logs the code and confirms on its conn
auth_passkey_confirm(s, passkey) == Log(s, "bt_conn_auth_passkey_confirm")

\* auth_cancel: logs
auth_cancel(s) == Log(s, "LOG_WRN Pairing cancelled")

\* pairing_complete: tells the console of a stored bond, logs otherwise
pairing_complete(s, bonded) ==
    IF bonded THEN Log(s, "printk PAIRING SUCCESSFUL") ELSE s

\* pairing_failed as it would be if it asked for the security level again
pairing_failed_retries(s, reason) ==
    Log(Log(Log(s, "LOG_ERR Pairing failed"), "printk PAIRING FAILED"), "bt_conn_set_security")

\* pairing_failed: logs and tells the console
pairing_failed(s, reason) ==
    Log(Log(s, "LOG_ERR Pairing failed"), "printk PAIRING FAILED")

\* enum bt_security_err values a failed pairing reports: authentication
\* failure, pairing not supported, unspecified
SecurityErrs == {1, 5, 9}

\* the peers a bond can be stored for
Peers == 1..MaxPeers

\* bt_unpair(BT_ID_DEFAULT, addr) for the address of a stored bond: the
\* identity is valid and the address is the store's own, so the bond is removed
bt_unpair(s, addr) == [Log(s, "bt_unpair") EXCEPT !.bonds = @ \ {addr}, !.ret = 0]

\* unpair_cb
unpair_cb(s, addr) ==
    LET s1 == bt_unpair(s, addr)
    IN IF s1.ret # 0 THEN Log(s1, "LOG_ERR Failed to unpair") ELSE s1

\* bt_foreach_bond(BT_ID_DEFAULT, unpair_cb, NULL): one call per stored bond
RECURSIVE ForeachBond(_, _)
ForeachBond(s, todo) ==
    IF todo = {} THEN s
    ELSE LET addr == CHOOSE a \in todo : \A b \in todo : a <= b
         IN ForeachBond(unpair_cb(s, addr), todo \ {addr})

\* pairing_clear_bonds as it would be if it removed the first stored bond only
pairing_clear_bonds_first_only(s) ==
    LET s1 == Log(s, "bt_foreach_bond")
    IN IF s.bonds = {} THEN [s1 EXCEPT !.ret = 0]
       ELSE [unpair_cb(s1, CHOOSE a \in s.bonds : \A b \in s.bonds : a <= b) EXCEPT !.ret = 0]

\* pairing_clear_bonds
pairing_clear_bonds(s) ==
    [ForeachBond(Log(s, "bt_foreach_bond"), s.bonds) EXCEPT !.ret = 0]

\* codes of a numeric comparison: the lowest, one in between, the highest
Passkeys == {0, 123456, 999999}

\* the security manager asks for a passkey to be typed in during a pairing on
\* the live link
AuthPasskeyEntry ==
    /\ link = "up"
    /\ Commit(auth_passkey_entry(Enter(St, "auth_passkey_entry")))

\* the security manager asks for a numeric comparison to be confirmed
AuthPasskeyConfirm ==
    /\ link = "up"
    /\ \E passkey \in Passkeys :
        Commit(auth_passkey_confirm(Enter(St, "auth_passkey_confirm"), passkey))

\* the security manager reports that the pairing on the live link was cancelled
AuthCancel ==
    /\ link = "up"
    /\ Commit(auth_cancel(Enter(St, "auth_cancel")))

\* the security manager reports a finished pairing; with bonding it has
\* stored the peer's bond before it calls the handler
PairingComplete ==
    /\ link = "up"
    /\ \E bonded \in BOOLEAN, peer \in Peers :
        Commit(pairing_complete([Enter(St, "pairing_complete")
                                    EXCEPT !.bonds = IF bonded THEN @ \cup {peer} ELSE @],
                                bonded))

\* the security manager reports a failed pairing
PairingFailed ==
    /\ link = "up"
    /\ \E reason \in SecurityErrs :
        Commit(pairing_failed(Enter(St, "pairing_failed"), reason))

PairingNext ==
    \/ Next
    \/ AuthPasskeyEntry
    \/ AuthPasskeyConfirm
    \/ AuthCancel
    \/ PairingFailed

PairingSpec == Init /\ [][PairingNext]_vars

\* ------------------------------------------------------------- main thread
\* The main thread is preemptible and the stack's callbacks run in threads of
\* higher priority: a callback runs to its end between any two statements of
\* the main thread, and the main thread never runs inside a callback.
Goto(s, stmt) == [s EXCEPT !.mainPc = <<s.mainPc[1], stmt>>]

\* ble_central_start_scan returns to its caller in the main thread: main()
\* leaves on an error and enters its loop otherwise; process_serial_commands
\* clears awaiting_clear_confirm and goes back to polling
start_scan_return(s, err) ==
    IF s.mainPc[1] = "main"
    THEN [s EXCEPT !.ret = err,
                   !.mainPc = IF err # 0 THEN <<"main", "return">> ELSE <<"main", "loop">>]
    ELSE [s EXCEPT !.ret = err, !.awaiting_clear_confirm = FALSE,
                   !.mainPc = <<"main", "loop">>]

\* "if (scanning) return 0" as it would be if the flag were not looked at
start_scan_test_flag_skipped(s) == Goto(s, "if (current_conn)")

\* ble_central_start_scan in the main thread, statement by statement:
\* if (scanning) return 0
start_scan_test_flag(s) ==
    IF s.scanning THEN start_scan_return(s, 0) ELSE Goto(s, "if (current_conn)")

\* if (current_conn) return 0
start_scan_test_conn(s) ==
    IF s.current_conn # 0 THEN start_scan_return(s, 0) ELSE Goto(s, "bt_scan_start")

\* err = bt_scan_start(BT_SCAN_TYPE_SCAN_ACTIVE); if (err) return err
start_scan_call(s, err) ==
    IF err # 0
    THEN start_scan_return(Log(Log(s, "bt_scan_start"), "LOG_ERR Scanning failed to start"), err)
    ELSE Goto([Log(s, "bt_scan_start") EXCEPT !.scanActive = TRUE], "scanning = true")

\* scanning = true; return 0
start_scan_set_flag(s) ==
    start_scan_return([Log(s, "scanning = true") EXCEPT !.scanning = TRUE], 0)

\* the characters the console may deliver
ConsoleChars == {"c", "y", "n", "x"}

\* process_serial_commands, one character of its loop, up to the point where
\* it reads the link handle
process_serial_commands(s, c) ==
    IF s.awaiting_clear_confirm
    THEN IF c = "y"
         THEN [pairing_clear_bonds(Log(s, "printk Clearing all Bluetooth bonds"))
                  EXCEPT !.mainPc = <<"console", "ble_central_is_connected">>]
         ELSE [Log(s, "printk Bond clearing cancelled") EXCEPT !.awaiting_clear_confirm = FALSE]
    ELSE IF c = "c"
         THEN [Log(s, "printk CLEAR ALL BLUETOOTH BONDS?") EXCEPT !.awaiting_clear_confirm = TRUE]
         ELSE s

\* if (!ble_central_is_connected()) ble_central_start_scan();
\* awaiting_clear_confirm = false
console_test_connected(s) ==
    IF ~ble_central_is_connected(s)
    THEN [s EXCEPT !.mainPc = <<"console", "ble_central_start_scan">>]
    ELSE [s EXCEPT !.awaiting_clear_confirm = FALSE, !.mainPc = <<"main", "loop">>]

\* the status part of main()'s loop: the LED follows the link
main_status(s) ==
    LET is_conn == ble_central_is_connected(s)
        s1 == IF is_conn # s.was_connected
              THEN [(IF is_conn THEN [Log(s, "gpio_pin_set 1") EXCEPT !.led = 1] ELSE s)
                       EXCEPT !.was_connected = is_conn]
              ELSE s
    IN IF ~is_conn
       THEN IF s1.blink_counter + 1 >= BLINK_TICKS
            THEN [Log(s1, "gpio_pin_toggle") EXCEPT !.led = 1 - @, !.blink_counter = 0]
            ELSE [s1 EXCEPT !.blink_counter = @ + 1]
       ELSE s1

\* the main thread runs "if (scanning)" of ble_central_start_scan
MainTestFlag ==
    /\ mainPc[2] = "ble_central_start_scan"
    /\ Commit(start_scan_test_flag(Enter(St, "ble_central_start_scan")))

MainTestConn ==
    /\ mainPc[2] = "if (current_conn)"
    /\ Commit(start_scan_test_conn(Enter(St, "ble_central_start_scan")))

MainScanStart ==
    /\ mainPc[2] = "bt_scan_start"
    /\ \E err \in StackResults :
        Commit(start_scan_call(Enter(St, "ble_central_start_scan"), err))

MainSetFlag ==
    /\ mainPc[2] = "scanning = true"
    /\ Commit(start_scan_set_flag(Enter(St, "ble_central_start_scan")))

\* a character arrives at the console while main() is in its loop
ConsoleChar ==
    /\ mainPc = <<"main", "loop">>
    /\ \E c \in ConsoleChars :
        Commit(process_serial_commands(Enter(St, "process_serial_commands"), c))

ConsoleTestConnected ==
    /\ mainPc = <<"console", "ble_central_is_connected">>
    /\ Commit(console_test_connected(Enter(St, "process_serial_commands")))

\* main()'s loop comes by its status part
MainStatus ==
    /\ mainPc = <<"main", "loop">>
    /\ Commit(main_status(Enter(St, "main")))

\* the system work queue runs led_off_work
LedOffWork ==
    /\ ledOffPending
    /\ Commit([led_off_handler(Enter(St, "led_off_handler")) EXCEPT !.ledOffPending = FALSE])

\* the stack's link callbacks
LinkCallbacks ==
    \/ ScanMatch
    \/ Connected
    \/ LinkDown
    \/ Disconnected
    \/ SecurityChanged
    \/ DiscoveryCompleted
    \/ DiscoveryServiceNotFound
    \/ DiscoveryErrorFound
    \/ HogpReady
    \/ ReportUnsubscribed

\* the console thread of control against the link callbacks
ConsoleNext ==
    \/ LinkCallbacks
    \/ PairingComplete
    \/ MainTestFlag
    \/ MainTestConn
    \/ MainScanStart
    \/ MainSetFlag
    \/ ConsoleChar
    \/ ConsoleTestConnected

ConsoleSpec == Init /\ [][ConsoleNext]_vars

\* main() has entered its loop: the host enumerated the device during the
\* two seconds main() waits for it, and the scan was started
IndicatorInit ==
    /\ current_conn = 0
    /\ scanning = TRUE
    /\ scanActive = TRUE
    /\ link = "none"
    /\ discReq = FALSE
    /\ dm = "idle"
    /\ hogpPending = FALSE
    /\ hogp_ready = FALSE
    /\ subscribed_reports = 0
    /\ subsActive = 0
    /\ usb_configured = TRUE
    /\ hid_sem = 1
    /\ epPending = 0
    /\ hostLast = empty_report
    /\ reports_received = 0
    /\ reports_forwarded = 0
    /\ reports_dropped = 0
    /\ last_report = Zeros(8)
    /\ bleReport = <<>>
    /\ usbReport = <<>>
    /\ bonds = {}
    /\ mainPc = <<"main", "loop">>
    /\ awaiting_clear_confirm = FALSE
    /\ was_connected = FALSE
    /\ blink_counter = 0
    /\ led = 0
    /\ ledOffPending = FALSE
    /\ lastOp = "ble_central_start_scan"
    /\ ops = <<"scanning = true">>
    /\ ret = 0

\* the indicator: the link, the reports, main()'s status loop and the LED work
IndicatorNext ==
    \/ LinkCallbacks
    \/ ReportNotify
    \/ IntInReady
    \/ MainStatus
    \/ LedOffWork

IndicatorSpec == IndicatorInit /\ [][IndicatorNext]_vars

\* ------------------------------------------------- the translator on its own
\* one byte of the 13-byte key bitmap: bit b of byte i is keycode 8 * i + b
RECURSIVE BitmapByte(_, _, _)
BitmapByte(keys, byte, bit) ==
    IF bit >= 8 THEN 0
    ELSE (IF (byte * 8) + bit \in keys THEN 2 ^ bit ELSE 0) + BitmapByte(keys, byte, bit + 1)

\* the 15-byte bitmap report a peripheral sends with the keys of a set down:
\* modifier, reserved byte, NKRO_BITMAP_LEN bitmap bytes
NkroOf(mod, res, keys) ==
    <<mod, res>> \o [i \in 1..NKRO_BITMAP_LEN |-> BitmapByte(keys, i - 1, 0)]

\* 8-byte reports: none down, shift + 'a', every byte set, a gap before the key
BootReportGap == <<0, 0, 0, 4, 0, 0, 0, 0>>
BootReports == {empty_report, BootReportA, BootReportB, BootReportGap}

\* bitmap reports with one key down, for every bit of the bitmap
SingleKeyReports ==
    {NkroOf(mr[1], mr[2], {k}) : k \in 0..((NKRO_BITMAP_LEN * 8) - 1),
                                 mr \in {<<0, 0>>, <<161, 255>>}}

\* bitmap reports with only keycodes 0-3 down
ReservedOnlyReports == {NkroOf(m, 0, K) : K \in SUBSET (0..3), m \in {0, 255}}

\* bitmap reports with several keys down: six, seven, eight, all, spread out
ManyKeyReports ==
    {NkroOf(2, 0, K) : K \in {4..9, 4..11, 0..10, 0..103, {96, 97, 98, 100, 101, 102, 103},
                               {5, 20, 33, 47, 62, 77, 90, 103},
                               {3, 4, 60, 61, 62, 63, 64, 65, 66}}}

\* reports of no known length: 1, 3, 4, 9, 14 and 16 bytes
OddReports ==
    {<<7>>, ShortReportA, <<0, 0, 0, 5>>, [i \in 1..9 |-> i], [i \in 1..14 |-> 16 + i],
     [i \in 1..16 |-> 32 + i]}

TranslatorInputs ==
    BootReports \cup SingleKeyReports \cup ReservedOnlyReports \cup ManyKeyReports
        \cup OddReports \cup PeripheralReports

\* a Ready link with the host interface configured and the slot free: the
\* state right after hogp_ready_cb subscribed one input report
TranslatorInit ==
    /\ current_conn = 1
    /\ scanning = TRUE
    /\ scanActive = FALSE
    /\ link = "up"
    /\ discReq = FALSE
    /\ dm = "idle"
    /\ hogpPending = FALSE
    /\ hogp_ready = TRUE
    /\ subscribed_reports = 1
    /\ subsActive = 1
    /\ usb_configured = TRUE
    /\ hid_sem = 1
    /\ epPending = 0
    /\ hostLast = empty_report
    /\ reports_received = 0
    /\ reports_forwarded = 0
    /\ reports_dropped = 0
    /\ last_report = Zeros(8)
    /\ bleReport = <<>>
    /\ usbReport = <<>>
    /\ bonds = {}
    /\ mainPc = <<"main", "ble_central_start_scan">>
    /\ awaiting_clear_confirm = FALSE
    /\ was_connected = FALSE
    /\ blink_counter = 0
    /\ led = 0
    /\ ledOffPending = FALSE
    /\ lastOp = "hogp_ready_cb"
    /\ ops = <<"bt_hogp_rep_subscribe">>
    /\ ret = 0

\* the peripheral notifies a report of any shape once the host took the one before
TranslatorNotify ==
    /\ subsActive > 0
    /\ link = "up"
    /\ hid_sem = 1
    /\ reports_received < MaxReports
    /\ \E data \in TranslatorInputs :
        Commit(hogp_report_notify(Enter(St, "hogp_report_notify"), 0, data, 0))

TranslatorNext ==
    \/ TranslatorNotify
    \/ IntInReady

TranslatorSpec == TranslatorInit /\ [][TranslatorNext]_vars

\* fair delivery of what the stacks owe the code: the outcome of a connection
\* attempt, the teardown of a link whose disconnect was requested, the GATT
\* cleanup and the disconnected callback of a lost link, the outcome of a
\* running discovery, the ready callback, the completion of an endpoint write.
\* A peer showing up, a peer leaving, reports, security changes, USB status
\* changes and API calls are owed by nobody.
Fairness ==
    /\ WF_vars(Connected)
    /\ WF_vars(discReq /\ LinkDown)
    /\ WF_vars(ReportUnsubscribed)
    /\ WF_vars(Disconnected)
    /\ WF_vars(DiscoveryCompleted \/ DiscoveryServiceNotFound \/ DiscoveryErrorFound)
    /\ WF_vars(HogpReady)
    /\ WF_vars(IntInReady)

FairSpec == Init /\ [][Next]_vars /\ Fairness

\* ------------------------------------------------------ link states of the design
\* Scanning: the scan module is scanning
Scanning == scanActive
\* a link handle is held: every state but Idle and Scanning
LinkHeld == current_conn # 0
\* Ready: a held link whose input reports are subscribed
LinkReady == current_conn # 0 /\ hogp_ready
\* the handler that ran last called the primitive, or logged the message, op
Did(op) == op \in Range(ops)
\* the handler that ran last was connected with a non-zero err
ConnectFailed == lastOp = "connected" /\ Did("LOG_ERR Failed to connect")

\* -------------------------------------------------------------------- claims
\* C1: after the disconnected handler has run, the last report the host
\* interface accepted is the all-zero report, whatever the host interface's state
C1_HostKeysReleased ==
    lastOp = "disconnected" => hostLast = empty_report

\* C2: in every disconnected handler, release_all is called, and it is called
\* before the link handle is nulled and before the scan is restarted
C2_ReleaseBeforeNullAndScan ==
    lastOp = "disconnected" =>
        /\ Did("app_usb_hid_release_all")
        /\ \A i \in 1..Len(ops) :
              ops[i] \in {"current_conn = NULL", "bt_scan_start"}
                  => IndexOf(ops, "app_usb_hid_release_all") < i

\* C2 witness: a disconnect that released, nulled the handle and restarted the scan
C2_Witness ==
    /\ lastOp = "disconnected"
    /\ Did("current_conn = NULL")
    /\ Did("bt_scan_start")
    /\ Scanning

\* C3: a disconnected handler makes exactly one release_all call, changes no
\* counter, and leaves the in-flight slot sound, also when the slot is still
\* held by the release of the disconnect before it
C3_OneReleasePerDisconnect ==
    [][lastOp' = "disconnected" =>
          /\ Count(ops', "app_usb_hid_release_all") = 1
          /\ reports_received' = reports_received
          /\ reports_forwarded' = reports_forwarded
          /\ reports_dropped' = reports_dropped
          /\ hid_sem' \in {0, 1}
          /\ epPending' <= 1]_vars

\* C3 witness: a disconnect whose release found the slot held by the all-zero
\* report of an earlier release
C3_Witness ==
    /\ lastOp = "disconnected"
    /\ usb_configured
    /\ hid_sem = 0
    /\ hostLast = empty_report
    /\ Did("LOG_WRN HID report timeout")

\* C4: every disconnected handler invokes the scan-start primitive
C4_ScanRestartedOnDisconnect ==
    lastOp = "disconnected" => Did("bt_scan_start")

\* C5: after a failed connection attempt (connected with an error, or the scan
\* module's connecting-error callback) the link handle is null and a scan has
\* been started again
C5_ScanRestartedOnConnectFailure ==
    (ConnectFailed \/ Did("scan_connecting_error")) =>
        /\ current_conn = 0
        /\ Did("bt_scan_start")

\* C6: every unsuccessful discovery outcome requests the teardown of the link
C6_DiscoveryFailureDisconnects ==
    (\/ Did("LOG_ERR No input reports found to subscribe")
     \/ Did("LOG_ERR GATT discovery error")
     \/ Did("LOG_ERR HID service not found")
     \/ Did("LOG_ERR Failed to assign HOGP handles")
     \/ Did("LOG_ERR Failed to start GATT discovery"))
        => Did("bt_conn_disconnect")

\* C7: after a link loss or a failed connection has been handled, and the
\* stack did not refuse a scan start in that handler, the link manager is
\* eventually scanning again, or a link is ready
C7_EventuallyScanningAgain ==
    ((lastOp = "disconnected" \/ ConnectFailed) /\ ~Did("LOG_ERR Scanning failed to start"))
        ~> (Scanning \/ LinkReady)

\* C8: a report notification writes to the host interface only while the link
\* is Ready
C8_ForwardOnlyWhenReady ==
    (lastOp = "hogp_report_notify" /\ Did("hid_int_ep_write")) => LinkReady

\* C9: while a link handle is held no scan runs, so no candidate is pursued;
\* the held handle is never replaced by another, and no step starts a second
\* connection attempt
C9_SingleConnection ==
    [][LinkHeld =>
          /\ ~Scanning
          /\ current_conn' \in {current_conn, 0}
          /\ ~Did("scan_connecting")']_vars

\* C9 witness: a scan request made while a handle was held and the scanning
\* flag was clear: only the handle kept the scan from starting
C9_Witness ==
    /\ lastOp = "ble_central_start_scan"
    /\ LinkHeld
    /\ ~scanning
    /\ ~Scanning

\* C10: ble_central_start_scan called while scanning is set or a handle is held
\* returns 0, calls no primitive and changes neither the flag nor the handle
C10_StartIdempotent ==
    [][(lastOp' = "ble_central_start_scan" /\ (scanning \/ LinkHeld)) =>
          /\ ret' = 0
          /\ ops' = <<>>
          /\ scanning' = scanning
          /\ scanActive' = scanActive
          /\ current_conn' = current_conn]_vars

\* C10 witness: a second start request while the scan was running
C10_Witness ==
    /\ lastOp = "ble_central_start_scan"
    /\ scanning
    /\ Scanning
    /\ ops = <<>>
    /\ ret = 0

\* the statics of the four modules and the stacks' state: everything but the
\* record of the handler that ran last
statics == <<current_conn, scanning, scanActive, link, discReq, dm, hogpPending,
             hogp_ready, subscribed_reports, subsActive, usb_configured, hid_sem,
             epPending, hostLast, reports_received, reports_forwarded,
             reports_dropped, last_report>>

\* C11: ble_central_stop_scan called while a link handle is held (Connecting,
\* Connected, Discovering, Ready) invokes no scan-stop primitive
C11_StopNoOpWhenLinked ==
    (lastOp = "ble_central_stop_scan" /\ LinkHeld) => ~Did("bt_scan_stop")

\* C12: ble_central_disconnect without a handle returns -ENOTCONN, calls
\* nothing and changes no state; with a handle it calls bt_conn_disconnect and
\* leaves the handle and the link as they are
C12_DisconnectIsRequest ==
    [][lastOp' = "ble_central_disconnect" =>
          IF current_conn = 0
          THEN ret' = -ENOTCONN /\ ops' = <<>> /\ UNCHANGED statics
          ELSE /\ Did("bt_conn_disconnect")'
               /\ current_conn' = current_conn
               /\ link' = link]_vars

\* C12 witness: a disconnect requested on an established link: the teardown
\* is pending and the handle is still held
C12_Witness ==
    /\ lastOp = "ble_central_disconnect"
    /\ Did("bt_conn_disconnect")
    /\ ret = 0
    /\ discReq
    /\ link = "up"
    /\ LinkHeld

\* C13: discovery is started by security_changed only: connected starts none,
\* a security_changed with an error requests the disconnect and starts none,
\* a security_changed without error calls the discovery start, after which a
\* discovery runs unless the start was refused
C13_DiscoveryAfterSecurity ==
    /\ Did("bt_gatt_dm_start") => lastOp = "security_changed"
    /\ (lastOp = "security_changed" /\ Did("LOG_ERR Security failed"))
           => (Did("bt_conn_disconnect") /\ ~Did("bt_gatt_dm_start"))
    /\ (lastOp = "security_changed" /\ ~Did("LOG_ERR Security failed"))
           => /\ Did("bt_gatt_dm_start")
              /\ ~Did("bt_conn_disconnect")
              /\ (dm = "running" \/ Did("LOG_ERR Failed to start GATT discovery"))

\* C13 witness: security established on a fresh link, discovery running
C13_Witness ==
    /\ lastOp = "security_changed"
    /\ Did("bt_gatt_dm_start")
    /\ ~Did("LOG_ERR Failed to start GATT discovery")
    /\ dm = "running"
    /\ link = "up"

\* reports handed to app_usb_hid_send_report when it is examined on its own
SinkReports == {empty_report, BootReportA}

\* the disconnected handler's key release did not reach the endpoint
ReleaseFailed ==
    /\ lastOp = "disconnected"
    /\ (~Did("hid_int_ep_write") \/ Did("LOG_ERR Failed to send HID report"))

\* C14: when the key release of a disconnected handler fails, the failure is
\* logged and the handler has nulled the link handle all the same
C14_ReleaseFailureLogged ==
    ReleaseFailed =>
        /\ (Did("LOG_WRN HID report timeout") \/ Did("LOG_ERR Failed to send HID report"))
        /\ current_conn = 0

\* C15: with the host interface not configured, app_usb_hid_send_report
\* returns -ENOTCONN, writes nothing and neither takes nor gives the slot;
\* app_usb_hid_ready is the configured flag, true after USB_DC_CONFIGURED and
\* false after USB_DC_DISCONNECTED
C15_SendNotReady ==
    /\ app_usb_hid_ready(St) = usb_configured
    /\ app_usb_hid_ready(status_cb(St, "USB_DC_CONFIGURED")) = TRUE
    /\ app_usb_hid_ready(status_cb(St, "USB_DC_DISCONNECTED")) = FALSE
    /\ ~usb_configured =>
          \A report \in SinkReports, werr \in StackResults :
              LET t == app_usb_hid_send_report(Enter(St, "app_usb_hid_send_report"), report, werr)
              IN /\ t.ret = -ENOTCONN
                 /\ t.ops = <<>>
                 /\ t.hid_sem = hid_sem
                 /\ t.epPending = epPending
                 /\ t.hostLast = hostLast
    /\ (lastOp = "disconnected" /\ ~usb_configured) =>
          /\ Did("app_usb_hid_release_all")
          /\ ~Did("k_sem_take")
          /\ ~Did("k_sem_give")
          /\ ~Did("hid_int_ep_write")

\* C15 witness: a key release attempted with the host interface detached and
\* the slot held: the slot is still held
C15_Witness ==
    /\ lastOp = "disconnected"
    /\ Did("app_usb_hid_release_all")
    /\ ~usb_configured
    /\ hid_sem = 0

\* C16: with the slot held, app_usb_hid_send_report returns -EAGAIN after its
\* bounded wait, writes nothing and leaves the slot held
C16_SendBusy ==
    /\ (usb_configured /\ hid_sem = 0) =>
          \A report \in SinkReports, werr \in StackResults :
              LET t == app_usb_hid_send_report(Enter(St, "app_usb_hid_send_report"), report, werr)
              IN /\ t.ret = -EAGAIN
                 /\ "hid_int_ep_write" \notin Range(t.ops)
                 /\ t.hid_sem = 0
                 /\ t.epPending = epPending
                 /\ t.hostLast = hostLast
    /\ Did("LOG_WRN HID report timeout") =>
          /\ ~Did("hid_int_ep_write")
          /\ ~Did("k_sem_give")
          /\ hid_sem = 0

\* C16 witness: a report sent to a wedged host interface (the transfer that
\* holds the slot was cancelled and will never complete): the send timed out
C16_Witness ==
    /\ lastOp = "hogp_report_notify"
    /\ Did("LOG_WRN HID report timeout")
    /\ usb_configured
    /\ hid_sem = 0
    /\ epPending = 0

\* C17: at most one endpoint write is in flight: a write is issued only with
\* none pending, a pending write holds the slot, and a held slot is given back
\* by int_in_ready_cb alone
C17_OneInFlight ==
    [][/\ epPending' <= 1
       /\ (epPending' > 0 => hid_sem' = 0)
       /\ ((hid_sem = 0 /\ hid_sem' = 1) => lastOp' = "int_in_ready_cb")
       /\ (Did("hid_int_ep_write")' =>
              /\ epPending = 0
              /\ hid_sem = 1
              /\ Count(ops', "hid_int_ep_write") = 1
              /\ (~Did("LOG_ERR Failed to send HID report")' => hid_sem' = 0))]_vars

\* C17 witness: a report arrived while the write before it was still in
\* flight: it was refused, one write is pending
C17_Witness ==
    /\ lastOp = "hogp_report_notify"
    /\ Did("LOG_WRN HID report timeout")
    /\ reports_forwarded = 1
    /\ epPending = 1
    /\ hid_sem = 0

\* the handler that ran last was a report notification that reached the bridge
ReportHandled == lastOp = "hogp_report_notify" /\ Did("hid_bridge_handle_report")

\* C18: every report handled while the slot is held busy adds exactly one to
\* dropped and nothing to forwarded, so N of them in a row add N
C18_BusyDropsCounted ==
    [][(ReportHandled' /\ usb_configured /\ hid_sem = 0) =>
          /\ Did("LOG_WRN HID report timeout")'
          /\ reports_dropped' = reports_dropped + 1
          /\ reports_forwarded' = reports_forwarded
          /\ reports_received' = reports_received + 1
          /\ hid_sem' = 0]_vars

\* C18 witness: two reports in a row met a held slot: two drops, none forwarded
C18_Witness ==
    /\ ReportHandled
    /\ Did("LOG_WRN HID report timeout")
    /\ reports_received = 2
    /\ reports_dropped = 2
    /\ reports_forwarded = 0

\* C19: a report handled while the host interface is not ready adds one to
\* dropped, nothing to forwarded, and neither writes nor tries the slot
C19_NotReadyDropsOne ==
    [][(ReportHandled' /\ ~usb_configured) =>
          /\ reports_dropped' = reports_dropped + 1
          /\ reports_forwarded' = reports_forwarded
          /\ reports_received' = reports_received + 1
          /\ ops' = <<"hid_bridge_handle_report">>
          /\ hid_sem' = hid_sem
          /\ epPending' = epPending
          /\ hostLast' = hostLast
          /\ last_report' = last_report]_vars

\* C19 witness: a report forwarded, the host interface detached, and the next
\* report dropped for it
C19_Witness ==
    /\ ReportHandled
    /\ ~usb_configured
    /\ ops = <<"hid_bridge_handle_report">>
    /\ reports_forwarded = 1
    /\ reports_dropped = 1

C21_ForwardedInOrder ==
    [][/\ Count(ops', "hid_int_ep_write") <= 1
       /\ IF Did("hid_int_ep_write")' /\ ~Did("LOG_ERR Failed to send HID report")'
          THEN \/ /\ ReportHandled'
                  /\ hostLast' = usb_report_of(bleReport', Len(bleReport') % UINT8_MOD)
               \/ /\ lastOp' = "disconnected"
                  /\ hostLast' = empty_report
          ELSE hostLast' = hostLast]_vars

\* C21 witness: a report was dropped, and the report after it reached the
\* host as itself
C21_Witness ==
    /\ ReportHandled
    /\ Did("led_blink")
    /\ reports_dropped = 1
    /\ reports_forwarded = 1
    /\ hostLast = usbReport
    /\ hostLast # empty_report

\* ------------------------------------------------------ translator claims
\* the keycodes a 15-byte bitmap report holds down
KeysOf(nkro) ==
    {k \in 0..((NKRO_BITMAP_LEN * 8) - 1) :
        BitSet(nkro[NKRO_BITMAP_OFFSET + (k \div 8) + 1], k % 8)}

\* the keycodes of it that are not reserved
RealKeysOf(nkro) == {k \in KeysOf(nkro) : k >= 4}

\* the six key slots of a canonical report
Slots(canon) == SubSeq(canon, 3, 8)

\* the n lowest members of a set, ascending
RECURSIVE Lowest(_, _)
Lowest(S, n) ==
    IF n = 0 \/ S = {} THEN <<>>
    ELSE LET m == CHOOSE x \in S : \A y \in S : x <= y
         IN <<m>> \o Lowest(S \ {m}, n - 1)

\* no empty slot precedes an occupied one
Packed(canon) == \A i \in 3..7 : canon[i] = 0 => canon[i + 1] = 0

\* the first 8 bytes of a report, zero-filled where it is shorter
PaddedCopy(raw) == [i \in 1..BOOT_REPORT_LEN |-> IF i <= Len(raw) THEN raw[i] ELSE 0]

\* C22: an 8-byte report is translated to itself, byte for byte
C22_BootIdentity ==
    (ReportHandled /\ Len(bleReport) = BOOT_REPORT_LEN) =>
        /\ usbReport = bleReport
        /\ (Did("led_blink") => hostLast = bleReport)

\* C22 witness: the 8-byte report with every byte set reached the host as it came
C22_Witness ==
    /\ ReportHandled
    /\ bleReport = BootReportB
    /\ hostLast = BootReportB

\* C23: a bitmap report with exactly one key k >= 4 down translates to
\* modifier = input byte 0, reserved byte 0, slot 0 = k, slots 1-5 empty
C23_SingleKeyRoundTrip ==
    (/\ ReportHandled
     /\ Len(bleReport) = NKRO_REPORT_LEN
     /\ Cardinality(KeysOf(bleReport)) = 1
     /\ Cardinality(RealKeysOf(bleReport)) = 1) =>
        LET k == CHOOSE x \in KeysOf(bleReport) : TRUE
        IN usbReport = <<bleReport[1], 0, k, 0, 0, 0, 0, 0>>

\* C23 witness: the last key of the bitmap, with modifier and reserved byte set
C23_Witness ==
    /\ ReportHandled
    /\ bleReport = NkroOf(161, 255, {103})
    /\ hostLast = <<161, 0, 103, 0, 0, 0, 0, 0>>

\* C24: no bitmap translation holds a keycode 1-3 in a slot or counts a
\* reserved key as a key; with only keycodes 0-3 down all six slots are empty
\* and the modifier is kept
C24_ReservedExcluded ==
    (ReportHandled /\ Len(bleReport) = NKRO_REPORT_LEN) =>
        /\ \A i \in 3..8 : usbReport[i] \notin 1..3
        /\ Cardinality({i \in 3..8 : usbReport[i] # 0}) <= Cardinality(RealKeysOf(bleReport))
        /\ RealKeysOf(bleReport) = {} =>
              usbReport = <<bleReport[1], 0, 0, 0, 0, 0, 0, 0>>

\* C24 witness: keycodes 0-3 all down under a full modifier byte
C24_Witness ==
    /\ ReportHandled
    /\ bleReport = NkroOf(255, 0, 0..3)
    /\ usbReport = <<255, 0, 0, 0, 0, 0, 0, 0>>
    /\ Did("led_blink")

\* C25: a bitmap report with more than six keys >= 4 down translates to the
\* six lowest of them, ascending, and is forwarded without any error
C25_OverflowTruncation ==
    (/\ ReportHandled
     /\ Len(bleReport) = NKRO_REPORT_LEN
     /\ Cardinality(RealKeysOf(bleReport)) > BOOT_MAX_KEYS) =>
        /\ Len(usbReport) = BOOT_REPORT_LEN
        /\ Slots(usbReport) = Lowest(RealKeysOf(bleReport), BOOT_MAX_KEYS)
        /\ ops = <<"hid_bridge_handle_report", "k_sem_take", "hid_int_ep_write", "led_blink">>

\* C25 witness: eight keys spread over the bitmap, the two highest left out
C25_Witness ==
    /\ ReportHandled
    /\ bleReport = NkroOf(2, 0, {5, 20, 33, 47, 62, 77, 90, 103})
    /\ hostLast = <<2, 0, 5, 20, 33, 47, 62, 77>>

\* C26 as stated: every translated report, whatever the input's length, has
\* its occupied slots packed low-to-high with no gap
C26_AlwaysPacked ==
    ReportHandled => Packed(usbReport)

\* C26 amended: a report translated from a 15-byte bitmap has its occupied
\* slots packed low-to-high with no gap; a report of any other length is
\* passed on as its own first 8 bytes, zero-filled, packed or not
C26_PackedFromBitmap ==
    ReportHandled =>
        /\ Len(usbReport) = BOOT_REPORT_LEN
        /\ Len(bleReport) = NKRO_REPORT_LEN =>
              /\ Packed(usbReport)
              /\ Cardinality({i \in 3..8 : usbReport[i] # 0})
                     = (IF Cardinality(RealKeysOf(bleReport)) > BOOT_MAX_KEYS
                        THEN BOOT_MAX_KEYS ELSE Cardinality(RealKeysOf(bleReport)))
        /\ Len(bleReport) # NKRO_REPORT_LEN => usbReport = PaddedCopy(bleReport)

\* C26 witness: reserved and real keys down in the same bitmap bytes
C26_Witness ==
    /\ ReportHandled
    /\ bleReport = NkroOf(2, 0, {3, 4, 60, 61, 62, 63, 64, 65, 66})
    /\ usbReport = <<2, 0, 4, 60, 61, 62, 63, 64>>

\* C27: a report of a length other than 8 or 15 is translated to its first
\* min(length, 8) bytes, zero-filled, and handed to the sink like any other
C27_OddLengthBestEffort ==
    (ReportHandled /\ Len(bleReport) \notin {BOOT_REPORT_LEN, NKRO_REPORT_LEN}) =>
        /\ usbReport = PaddedCopy(bleReport)
        /\ Did("k_sem_take")
        /\ Did("led_blink") => (hostLast = usbReport /\ last_report = usbReport)
        /\ reports_forwarded + reports_dropped = reports_received

\* C27 witness: a 16-byte report cut to 8 bytes and forwarded
C27_Witness ==
    /\ ReportHandled
    /\ Len(bleReport) = 16
    /\ hostLast = <<33, 34, 35, 36, 37, 38, 39, 40>>
    /\ reports_forwarded > 0

\* C28: the report the bridge builds is a function of the received bytes
\* alone: whatever was received, counted or stored before and whatever the
\* link and the host are doing, it is the translation of those bytes, and it
\* is what an accepted write carries
C28_TranslationStateless ==
    ReportHandled =>
        /\ usbReport = usb_report_of(bleReport, Len(bleReport) % UINT8_MOD)
        /\ Did("led_blink") => hostLast = usb_report_of(bleReport, Len(bleReport) % UINT8_MOD)

\* C28 witness: the same bitmap report forwarded a second time, with the
\* first still stored in last_report: the same translation again
C28_Witness ==
    /\ ReportHandled
    /\ bleReport = NkroReportA
    /\ reports_forwarded = 2
    /\ usbReport = <<1, 0, 4, 9, 0, 0, 0, 0>>
    /\ hostLast = usbReport

\* --------------------------------------------------------- pairing claims
\* a handler's result differs from the state it started in by its own record only
OnlyRecorded(t) ==
    [t EXCEPT !.lastOp = lastOp, !.ops = ops, !.ret = ret,
              !.bleReport = bleReport, !.usbReport = usbReport] = St

\* C29: auth_passkey_entry cancels the authentication and does nothing else:
\* it confirms nothing, supplies no passkey, requests no disconnect and
\* changes no state of the link, in whatever state it is called
C29_PasskeyEntryCancels ==
    /\ LET t == auth_passkey_entry(Enter(St, "auth_passkey_entry"))
       IN /\ t.ops = <<"LOG_WRN Passkey entry requested - not supported", "bt_conn_auth_cancel">>
          /\ OnlyRecorded(t)
    /\ lastOp = "auth_passkey_entry" =>
          /\ Did("bt_conn_auth_cancel")
          /\ ~Did("bt_conn_auth_passkey_confirm")
          /\ ~Did("bt_conn_auth_passkey_entry")
          /\ ~Did("bt_conn_disconnect")

\* C29 witness: a passkey entry requested on an established link: cancelled,
\* the link still up and held, no teardown requested
C29_Witness ==
    /\ lastOp = "auth_passkey_entry"
    /\ Did("bt_conn_auth_cancel")
    /\ link = "up"
    /\ LinkHeld
    /\ ~discReq

\* C30: auth_passkey_confirm confirms at once, for every code, in whatever
\* state it is called, and does nothing else
C30_NumericComparisonAutoConfirm ==
    /\ \A passkey \in Passkeys :
          LET t == auth_passkey_confirm(Enter(St, "auth_passkey_confirm"), passkey)
          IN /\ t.ops = <<"bt_conn_auth_passkey_confirm">>
             /\ OnlyRecorded(t)
    /\ lastOp = "auth_passkey_confirm" => ops = <<"bt_conn_auth_passkey_confirm">>

\* C30 witness: a numeric comparison confirmed on a link that is already Ready
C30_Witness ==
    /\ lastOp = "auth_passkey_confirm"
    /\ Did("bt_conn_auth_passkey_confirm")
    /\ LinkReady
    /\ link = "up"

\* what a retry of the pairing or of the link would call
RetryOps == {"bt_conn_set_security", "bt_scan_start", "bt_conn_le_create",
             "scan_connecting", "bt_conn_auth_passkey_confirm"}

\* C31: the pairing-cancelled and the pairing-failed handler, in whatever
\* state and for whatever reason they run, request no security level, no
\* connect and no scan and change no state of the link; a failed security
\* change is answered by a disconnect request only, never by a new attempt
C31_NoAutomaticPairingRetry ==
    /\ LET t == auth_cancel(Enter(St, "auth_cancel"))
       IN Range(t.ops) \cap RetryOps = {} /\ OnlyRecorded(t)
    /\ \A reason \in SecurityErrs :
          LET t == pairing_failed(Enter(St, "pairing_failed"), reason)
          IN Range(t.ops) \cap RetryOps = {} /\ OnlyRecorded(t)
    /\ lastOp \in {"auth_cancel", "pairing_failed"} =>
          Range(ops) \cap (RetryOps \cup {"bt_conn_disconnect"}) = {}
    /\ (lastOp = "security_changed" /\ Did("LOG_ERR Security failed")) =>
          /\ Did("bt_conn_disconnect")
          /\ Range(ops) \cap RetryOps = {}
          /\ ~Did("hogp_client_discover")

\* C31 witness: a pairing failed on an established link: reported, the link
\* still up and held, nothing requested
C31_Witness ==
    /\ lastOp = "pairing_failed"
    /\ Did("LOG_ERR Pairing failed")
    /\ link = "up"
    /\ LinkHeld
    /\ ~discReq
    /\ ~Scanning

C34_LedSolidWhileConnected ==
    (was_connected /\ current_conn # 0) => led = 1

\* ------------------------------------------------------- state invariants
\* the input reports of a report map
InputReports(reps) == Cardinality({i \in 1..Len(reps) : reps[i].type = "input"})

\* C35: whenever the ready callback may run, it asks for a subscription to
\* each input report and to no other, and leaves hogp_client_ready() true if
\* and only if one of them succeeded; and a discovery just started has
\* cleared the flag
C35_ReadyIffSubscribed ==
    /\ (hogpPending /\ link = "up") =>
          \A reps \in RepLists :
              LET t == hogp_ready_cb(Enter(St, "hogp_ready_cb"), reps)
              IN /\ Count(t.ops, "bt_hogp_rep_subscribe") = InputReports(reps)
                 /\ hogp_client_ready(t) <=> Subscribable(reps) > 0
    /\ lastOp = "hogp_ready_cb" => (hogp_ready <=> subscribed_reports > 0)
    /\ Did("hogp_client_discover") => ~hogp_ready

\* C36: received = forwarded + dropped in every state; a handled report adds
\* one to received and one to exactly one of forwarded and dropped; no other
\* step changes a counter
C36_CounterConservation ==
    [][/\ reports_received' = reports_forwarded' + reports_dropped'
       /\ IF ReportHandled'
          THEN /\ reports_received' = reports_received + 1
               /\ \/ /\ reports_forwarded' = reports_forwarded + 1
                     /\ reports_dropped' = reports_dropped
                  \/ /\ reports_forwarded' = reports_forwarded
                     /\ reports_dropped' = reports_dropped + 1
          ELSE /\ reports_received' = reports_received
               /\ reports_forwarded' = reports_forwarded
               /\ reports_dropped' = reports_dropped]_vars

\* C36 witness: one report forwarded, one dropped, and the counts still
\* standing after the link was lost
C36_Witness ==
    /\ lastOp = "disconnected"
    /\ Did("app_usb_hid_release_all")
    /\ reports_received = 2
    /\ reports_forwarded = 1
    /\ reports_dropped = 1

\* C37: the scanning flag is false whenever a link handle is held
C37_FlagAgreesWithLink ==
    current_conn # 0 => ~scanning

\* C38: hogp_client_ready() implies a held link handle, and is false once a
\* disconnected event has been handled
C38_ReadyNeverOutlivesLink ==
    /\ hogp_client_ready(St) => ble_central_is_connected(St)
    /\ lastOp = "disconnected" => ~hogp_client_ready(St)

\* C39: whenever the slot semaphore is taken, exactly one accepted endpoint
\* write awaits its completion callback
C39_SlotHeldOnlyWhilePending ==
    hid_sem = 0 => epPending = 1

====
